---- MODULE Spec2Model ----
(***************************************************************************)
(* Model of tools/check_segment.py: read one file as UTF-8 text, collect   *)
(* every offset at which a fixed pattern starts, and print for each offset *)
(* a separator, the window text[idx:idx+80] and the unicode_escape         *)
(* encoding of that window.                                                *)
(*                                                                         *)
(* Characters are code points, bytes are integers 0..255, a string is a    *)
(* sequence of code points.  The pattern ('renderWaypoints' in the source) *)
(* and the window length (80 in the source) are inputs chosen at start so  *)
(* that overlapping matches and clipped as well as full windows occur on   *)
(* short texts.                                                            *)
(***************************************************************************)
EXTENDS Integers, Sequences, FiniteSets, TLC

VARIABLES file, pattern, windowLength, pc, handleOpen, buffer, pending,
          text, occurrences, pos, idx, segment, stdout, error, exitStatus

vars == <<file, pattern, windowLength, pc, handleOpen, buffer, pending,
          text, occurrences, pos, idx, segment, stdout, error, exitStatus>>

(* ---------------------------- bounds ---------------------------------- *)

MaxFileLen == 4

MaxPatternLen == 2

MaxWindow == 2

\* file length in the specification with fairness
MaxFairFileLen == 2

\* bytes a file is made of: 'a', LF, TAB, CR and the two bytes of U+00E9
FileBytes == {97, 10, 9, 13, 195, 169}

\* characters a pattern is made of: 'a' and LF
PatternChars == {97, 10}

SeqsUpTo(S, n) == UNION {[1..k -> S] : k \in 0..n}

FilesUpTo(n) == {[exists |-> FALSE, bytes |-> <<>>]} \cup
                {[exists |-> TRUE, bytes |-> b] : b \in SeqsUpTo(FileBytes, n)}

Patterns == SeqsUpTo(PatternChars, MaxPatternLen) \ {<<>>}

(* ---------------------------- helpers --------------------------------- *)

Range(s) == {s[k] : k \in DOMAIN s}

Min(a, b) == IF a < b THEN a ELSE b

RECURSIVE Concat(_)
Concat(ss) == IF ss = <<>> THEN <<>> ELSE Head(ss) \o Concat(Tail(ss))

(* -------------------- bytes.decode('utf8'), strict -------------------- *)

IsCont(b) == b >= 128 /\ b <= 191

\* number of bytes of the sequence a lead byte starts; 0 for an invalid lead
Utf8Width(b) ==
    IF b < 128 THEN 1
    ELSE IF b >= 194 /\ b <= 223 THEN 2
    ELSE IF b >= 224 /\ b <= 239 THEN 3
    ELSE IF b >= 240 /\ b <= 244 THEN 4
    ELSE 0

\* the range the second byte of a sequence must lie in (E0, ED, F0, F4 narrow it)
Utf8SecondOk(b0, b1) ==
    IF b0 = 224 THEN b1 >= 160 /\ b1 <= 191
    ELSE IF b0 = 237 THEN b1 >= 128 /\ b1 <= 159
    ELSE IF b0 = 240 THEN b1 >= 144 /\ b1 <= 191
    ELSE IF b0 = 244 THEN b1 >= 128 /\ b1 <= 143
    ELSE IsCont(b1)

Utf8Lead(b, w) ==
    IF w = 1 THEN b
    ELSE IF w = 2 THEN b - 192
    ELSE IF w = 3 THEN b - 224
    ELSE b - 240

RECURSIVE Utf8Tail(_, _, _, _)
\* folds the continuation bytes bs[from..to] into the code point acc
Utf8Tail(bs, from, to, acc) ==
    IF from > to THEN acc
    ELSE Utf8Tail(bs, from + 1, to, acc * 64 + (bs[from] - 128))

RECURSIVE Utf8From(_, _)
\* decodes bs[i..]: [ok, text]; ok is FALSE at the first ill-formed sequence
Utf8From(bs, i) ==
    IF i > Len(bs) THEN [ok |-> TRUE, text |-> <<>>]
    ELSE LET w == Utf8Width(bs[i]) IN
         IF w = 0 \/ i + w - 1 > Len(bs) THEN [ok |-> FALSE, text |-> <<>>]
         ELSE IF w >= 2 /\ ~Utf8SecondOk(bs[i], bs[i + 1])
              THEN [ok |-> FALSE, text |-> <<>>]
         ELSE IF \E k \in (i + 2)..(i + w - 1) : ~IsCont(bs[k])
              THEN [ok |-> FALSE, text |-> <<>>]
         ELSE LET cp   == Utf8Tail(bs, i + 1, i + w - 1, Utf8Lead(bs[i], w))
                  rest == Utf8From(bs, i + w)
              IN [ok |-> rest.ok,
                  text |-> IF rest.ok THEN <<cp>> \o rest.text ELSE <<>>]

Utf8Decode(bs) == Utf8From(bs, 1)

RECURSIVE UniversalNewlines(_)
\* text mode with newline=None: "\r\n" and a lone "\r" are read as "\n"
UniversalNewlines(t) ==
    IF t = <<>> THEN <<>>
    ELSE IF Head(t) = 13
         THEN IF Len(t) >= 2 /\ t[2] = 10
              THEN <<10>> \o UniversalNewlines(SubSeq(t, 3, Len(t)))
              ELSE <<10>> \o UniversalNewlines(Tail(t))
         ELSE <<Head(t)>> \o UniversalNewlines(Tail(t))

(* ------------------------- str operations ----------------------------- *)

\* s.startswith(p, start): the end is clipped to len(s), then p is compared
StartsWith(s, p, start) ==
    /\ start + Len(p) <= Len(s)
    /\ \A k \in 1..Len(p) : s[start + k] = p[k]

\* variant: the upper index taken as a length, text[idx:80]
SliceToLength(s, lo, hi) == SubSeq(s, Min(lo, Len(s)) + 1, Min(hi - lo, Len(s)))

\* s[lo:hi] for 0 <= lo <= hi: the slice stops at the end of s
Slice(s, lo, hi) == SubSeq(s, Min(lo, Len(s)) + 1, Min(hi, Len(s)))

RECURSIVE OccFromNoOverlap(_, _, _)
\* variant: the scan resumes after the end of a match
OccFromNoOverlap(t, p, i) ==
    IF i >= Len(t) THEN <<>>
    ELSE IF StartsWith(t, p, i) THEN <<i>> \o OccFromNoOverlap(t, p, i + Len(p))
    ELSE OccFromNoOverlap(t, p, i + 1)

RECURSIVE OccFromDescending(_, _, _)
\* variant: each match is put at the front of the list
OccFromDescending(t, p, i) ==
    IF i >= Len(t) THEN <<>>
    ELSE OccFromDescending(t, p, i + 1) \o (IF StartsWith(t, p, i) THEN <<i>> ELSE <<>>)

RECURSIVE OccFrom(_, _, _)
\* [i for i in range(from, len(t)) if t.startswith(p, i)]
OccFrom(t, p, i) ==
    IF i >= Len(t) THEN <<>>
    ELSE (IF StartsWith(t, p, i) THEN <<i>> ELSE <<>>) \o OccFrom(t, p, i + 1)

Occurrences(t, p) == OccFrom(t, p, 0)

RECURSIVE Decimal(_)
\* str(n) for n >= 0
Decimal(n) == IF n < 10 THEN <<48 + n>> ELSE Decimal(n \div 10) \o <<48 + (n % 10)>>

HexDigit(d) == IF d < 10 THEN 48 + d ELSE 87 + d

RECURSIVE Hex(_, _)
\* n in lower-case hexadecimal, zero-padded to w digits
Hex(n, w) == IF w = 0 THEN <<>> ELSE Hex(n \div 16, w - 1) \o <<HexDigit(n % 16)>>

\* variant: ASCII control characters are left as they are
UnicodeEscapeCharRawControl(c) ==
    IF c = 92 THEN <<92, 92>>
    ELSE IF c < 127 THEN <<c>>
    ELSE IF c < 256 THEN <<92, 120>> \o Hex(c, 2)
    ELSE IF c < 65536 THEN <<92, 117>> \o Hex(c, 4)
    ELSE <<92, 85>> \o Hex(c, 8)

\* the bytes one character encodes to under 'unicode_escape'
UnicodeEscapeChar(c) ==
    IF c = 92 THEN <<92, 92>>
    ELSE IF c = 9 THEN <<92, 116>>
    ELSE IF c = 10 THEN <<92, 110>>
    ELSE IF c = 13 THEN <<92, 114>>
    ELSE IF c >= 32 /\ c < 127 THEN <<c>>
    ELSE IF c < 256 THEN <<92, 120>> \o Hex(c, 2)
    ELSE IF c < 65536 THEN <<92, 117>> \o Hex(c, 4)
    ELSE <<92, 85>> \o Hex(c, 8)

\* s.encode('unicode_escape')
UnicodeEscape(s) == Concat([k \in 1..Len(s) |-> UnicodeEscapeChar(s[k])])

\* the quote repr(bytes) uses: double only if there is a ' and no "
ReprQuote(b) == IF 39 \in Range(b) /\ ~(34 \in Range(b)) THEN 34 ELSE 39

ReprByte(c, q) ==
    IF c = q \/ c = 92 THEN <<92, c>>
    ELSE IF c = 9 THEN <<92, 116>>
    ELSE IF c = 10 THEN <<92, 110>>
    ELSE IF c = 13 THEN <<92, 114>>
    ELSE IF c < 32 \/ c >= 127 THEN <<92, 120>> \o Hex(c, 2)
    ELSE <<c>>

\* str(b) of a bytes object, which is what print(b) writes: b'...'
BytesRepr(b) ==
    LET q == ReprQuote(b) IN
    <<98, q>> \o Concat([k \in 1..Len(b) |-> ReprByte(b[k], q)]) \o <<q>>

\* print(s): the string and the line terminator
PrintStr(s) == s \o <<10>>

\* print('---', n, '---'): the arguments joined by one space
PrintSeparator(n) == PrintStr(<<45, 45, 45, 32>> \o Decimal(n) \o <<32, 45, 45, 45>>)

(* ----------------------------- state ---------------------------------- *)

InitWith(files) ==
    /\ file \in files
    /\ pattern \in Patterns
    /\ windowLength \in 1..MaxWindow
    /\ pc = "idle"
    /\ handleOpen = FALSE
    /\ buffer = <<>>
    /\ pending = "none"
    /\ text = <<>>
    /\ occurrences = <<>>
    /\ pos = 0
    /\ idx = 0
    /\ segment = <<>>
    /\ stdout = <<>>
    /\ error = "none"
    /\ exitStatus = -1

Init == InitWith(FilesUpTo(MaxFileLen))

FairInit == InitWith(FilesUpTo(MaxFairFileLen))

\* line 1: the import; the run begins
Start ==
    /\ pc = "idle"
    /\ pc' = "open"
    /\ UNCHANGED <<file, pattern, windowLength, handleOpen, buffer, pending, text,
                   occurrences, pos, idx, segment, stdout, error, exitStatus>>

\* read_text: open(path, 'r', encoding='utf8'); a missing file raises here
Open ==
    /\ pc = "open"
    /\ IF file.exists
       THEN /\ handleOpen' = TRUE
            /\ pc' = "read"
            /\ UNCHANGED <<error, exitStatus>>
       ELSE /\ error' = "FileNotFoundError"
            /\ exitStatus' = 1
            /\ pc' = "error"
            /\ UNCHANGED handleOpen
    /\ UNCHANGED <<file, pattern, windowLength, buffer, pending, text,
                   occurrences, pos, idx, segment, stdout>>

\* variant: ill-formed bytes are dropped and the read succeeds
ReadIgnoringErrors ==
    /\ pc = "read"
    /\ LET d == Utf8Decode(file.bytes) IN
       buffer' = IF d.ok THEN UniversalNewlines(d.text) ELSE <<>>
    /\ pc' = "close"
    /\ UNCHANGED <<file, pattern, windowLength, handleOpen, pending, text,
                   occurrences, pos, idx, segment, stdout, error, exitStatus>>

\* read_text: f.read() inside the with block; ill-formed bytes raise
Read ==
    /\ pc = "read"
    /\ LET d == Utf8Decode(file.bytes) IN
       IF d.ok
       THEN /\ buffer' = UniversalNewlines(d.text)
            /\ UNCHANGED pending
       ELSE /\ pending' = "UnicodeDecodeError"
            /\ UNCHANGED buffer
    /\ pc' = "close"
    /\ UNCHANGED <<file, pattern, windowLength, handleOpen, text,
                   occurrences, pos, idx, segment, stdout, error, exitStatus>>

\* variant: the file is never closed
CloseKeepingHandle ==
    /\ pc = "close"
    /\ IF pending = "none"
       THEN /\ text' = buffer
            /\ pc' = "scan"
            /\ UNCHANGED <<error, exitStatus>>
       ELSE /\ error' = pending
            /\ exitStatus' = 1
            /\ pc' = "error"
            /\ UNCHANGED text
    /\ UNCHANGED <<file, pattern, windowLength, handleOpen, buffer, pending,
                   occurrences, pos, idx, segment, stdout>>

\* variant: a failed read starts the script over
CloseRetrying ==
    /\ pc = "close"
    /\ handleOpen' = FALSE
    /\ IF pending = "none"
       THEN /\ text' = buffer
            /\ pc' = "scan"
       ELSE /\ pc' = "idle"
            /\ UNCHANGED text
    /\ UNCHANGED <<file, pattern, windowLength, buffer, pending,
                   occurrences, pos, idx, segment, stdout, error, exitStatus>>

\* read_text: the with block exits, closing the file, then the value is
\* bound to text or the exception ends the run
Close ==
    /\ pc = "close"
    /\ handleOpen' = FALSE
    /\ IF pending = "none"
       THEN /\ text' = buffer
            /\ pc' = "scan"
            /\ UNCHANGED <<error, exitStatus>>
       ELSE /\ error' = pending
            /\ exitStatus' = 1
            /\ pc' = "error"
            /\ UNCHANGED text
    /\ UNCHANGED <<file, pattern, windowLength, buffer, pending,
                   occurrences, pos, idx, segment, stdout>>

\* line 3: the list comprehension, bound to occurrences when complete
Scan ==
    /\ pc = "scan"
    /\ occurrences' = Occurrences(text, pattern)
    /\ pos' = 0
    /\ pc' = "for"
    /\ UNCHANGED <<file, pattern, windowLength, handleOpen, buffer, pending, text,
                   idx, segment, stdout, error, exitStatus>>

\* variant: the exit status tells whether anything was found
ForNextStatusByCount ==
    /\ pc = "for"
    /\ IF pos < Len(occurrences)
       THEN /\ idx' = occurrences[pos + 1]
            /\ pos' = pos + 1
            /\ pc' = "segment"
            /\ UNCHANGED exitStatus
       ELSE /\ pc' = "done"
            /\ exitStatus' = IF occurrences = <<>> THEN 1 ELSE 0
            /\ UNCHANGED <<idx, pos>>
    /\ UNCHANGED <<file, pattern, windowLength, handleOpen, buffer, pending, text,
                   occurrences, segment, stdout, error>>

\* variant: the loop consumes the list, idx = occurrences.pop(0)
ForNextPopping ==
    /\ pc = "for"
    /\ IF occurrences # <<>>
       THEN /\ idx' = Head(occurrences)
            /\ occurrences' = Tail(occurrences)
            /\ pos' = pos + 1
            /\ pc' = "segment"
            /\ UNCHANGED exitStatus
       ELSE /\ pc' = "done"
            /\ exitStatus' = 0
            /\ UNCHANGED <<idx, pos, occurrences>>
    /\ UNCHANGED <<file, pattern, windowLength, handleOpen, buffer, pending, text,
                   segment, stdout, error>>

\* line 4: the list iterator yields the next offset or the loop (and the
\* script) ends
ForNext ==
    /\ pc = "for"
    /\ IF pos < Len(occurrences)
       THEN /\ idx' = occurrences[pos + 1]
            /\ pos' = pos + 1
            /\ pc' = "segment"
            /\ UNCHANGED exitStatus
       ELSE /\ pc' = "done"
            /\ exitStatus' = 0
            /\ UNCHANGED <<idx, pos>>
    /\ UNCHANGED <<file, pattern, windowLength, handleOpen, buffer, pending, text,
                   occurrences, segment, stdout, error>>

\* line 5
TakeSegment ==
    /\ pc = "segment"
    /\ segment' = Slice(text, idx, idx + windowLength)
    /\ pc' = "print_sep"
    /\ UNCHANGED <<file, pattern, windowLength, handleOpen, buffer, pending, text,
                   occurrences, pos, idx, stdout, error, exitStatus>>

\* line 6
PrintSep ==
    /\ pc = "print_sep"
    /\ stdout' = Append(stdout, PrintSeparator(idx))
    /\ pc' = "print_seg"
    /\ UNCHANGED <<file, pattern, windowLength, handleOpen, buffer, pending, text,
                   occurrences, pos, idx, segment, error, exitStatus>>

\* variant: the escaped rendering is written in place of the literal one
PrintSegEscaped ==
    /\ pc = "print_seg"
    /\ stdout' = Append(stdout, PrintStr(BytesRepr(UnicodeEscape(segment))))
    /\ pc' = "print_esc"
    /\ UNCHANGED <<file, pattern, windowLength, handleOpen, buffer, pending, text,
                   occurrences, pos, idx, segment, error, exitStatus>>

\* line 7
PrintSeg ==
    /\ pc = "print_seg"
    /\ stdout' = Append(stdout, PrintStr(segment))
    /\ pc' = "print_esc"
    /\ UNCHANGED <<file, pattern, windowLength, handleOpen, buffer, pending, text,
                   occurrences, pos, idx, segment, error, exitStatus>>

\* line 8
PrintEsc ==
    /\ pc = "print_esc"
    /\ stdout' = Append(stdout, PrintStr(BytesRepr(UnicodeEscape(segment))))
    /\ pc' = "for"
    /\ UNCHANGED <<file, pattern, windowLength, handleOpen, buffer, pending, text,
                   occurrences, pos, idx, segment, error, exitStatus>>

Next ==
    \/ Start
    \/ Open
    \/ Read
    \/ Close
    \/ Scan
    \/ ForNext
    \/ TakeSegment
    \/ PrintSep
    \/ PrintSeg
    \/ PrintEsc

Spec == Init /\ [][Next]_vars

\* the interpreter runs the script's statements one after another
FairSpec == FairInit /\ [][Next]_vars /\ WF_vars(Next)

(* ------------------------- derived notions ---------------------------- *)

\* the scan has completed: occurrences is bound
Scanned == pc \in {"for", "segment", "print_sep", "print_seg", "print_esc", "done"}

Terminated == pc \in {"done", "error"}

\* how many separators, literal windows and escaped windows are on stdout
NumSep == (Len(stdout) + 2) \div 3

NumLit == (Len(stdout) + 1) \div 3

NumEsc == Len(stdout) \div 3

\* a written record without its line terminator
Body(rec) == SubSeq(rec, 1, Len(rec) - 1)

\* x occurs in e as a contiguous run
Contains(e, x) == \E o \in 0..(Len(e) - Len(x)) : SubSeq(e, o + 1, o + Len(x)) = x

Matches(i) == Slice(text, i, i + Len(pattern)) = pattern

NoMatch == \A i \in 0..Len(text) : ~Matches(i)

BadInput == ~file.exists \/ ~Utf8Decode(file.bytes).ok

Phase ==
    IF pc = "idle" THEN "Idle"
    ELSE IF pc \in {"open", "read", "close"} THEN "Reading"
    ELSE IF pc = "done" THEN "Done"
    ELSE IF pc = "error" THEN "Error"
    ELSE "ScanPrint"

PhaseOrder == {<<"Idle", "Reading">>, <<"Reading", "ScanPrint">>,
               <<"Reading", "Error">>, <<"ScanPrint", "Done">>}

(* ------------------------------ claims -------------------------------- *)

\* C1: once the scan is done, an offset is in the occurrence list exactly
\* when the text sliced from it over the pattern's length equals the pattern;
\* every listed offset is an index of the text; "aa" in "aaaa" gives [0, 1, 2].
Thm_C1 ==
    Scanned =>
        /\ \A i \in 0..Len(text) : (i \in Range(occurrences)) <=> Matches(i)
        /\ Range(occurrences) \subseteq 0..(Len(text) - 1)
        /\ (text = <<97, 97, 97, 97>> /\ pattern = <<97, 97>>)
               => occurrences = <<0, 1, 2>>

Wit_C1 ==
    /\ pc = "done"
    /\ text = <<97, 97, 97, 97>>
    /\ pattern = <<97, 97>>
    /\ occurrences = <<0, 1, 2>>

\* C2: the occurrence list is strictly ascending, and of any two consecutive
\* separators on stdout the later one carries the strictly greater offset.
Thm_C2 ==
    /\ \A j, k \in 1..Len(occurrences) : j < k => occurrences[j] < occurrences[k]
    /\ \A k \in 1..(NumSep - 1) :
          \E m, n \in 0..Len(text) :
              /\ stdout[3 * k - 2] = PrintSeparator(m)
              /\ stdout[3 * k + 1] = PrintSeparator(n)
              /\ m < n

Wit_C2 == NumSep >= 3 /\ pc = "done"

\* C3: every literal window on stdout is the text from its offset up to
\* offset + windowLength or the end of the text, whichever comes first,
\* followed by the line terminator; near the end it is shorter than
\* windowLength and is exactly the rest of the text.
Thm_C3 ==
    \A k \in 1..NumLit :
        LET i == occurrences[k]
            n == Min(windowLength, Len(text) - i)
            w == Body(stdout[3 * k - 1])
        IN /\ stdout[3 * k - 1] = [j \in 1..n |-> text[i + j]] \o <<10>>
           /\ Len(w) <= windowLength
           /\ i + windowLength > Len(text)
                  => Len(w) < windowLength /\ w = SubSeq(text, i + 1, Len(text))

Wit_C3 ==
    /\ pc = "done"
    /\ \E k \in 1..NumLit : /\ occurrences[k] + windowLength > Len(text)
                            /\ Len(stdout[3 * k - 1]) = Len(text) - occurrences[k] + 1
    /\ \E k \in 1..NumLit : /\ occurrences[k] + windowLength <= Len(text)
                            /\ Len(stdout[3 * k - 1]) = windowLength + 1

\* C4: stdout is, for the offsets of the list in order, the separator of the
\* offset, the literal window, the escaped rendering of that same window;
\* the prints of one offset are complete before the next offset is taken,
\* and at the end there are exactly three records per occurrence.
Thm_C4 ==
    /\ Len(stdout) <= 3 * Len(occurrences)
    /\ \A j \in 1..NumSep : stdout[3 * j - 2] = PrintSeparator(occurrences[j])
    /\ \A j \in 1..NumLit :
          stdout[3 * j - 1] =
              PrintStr(Slice(text, occurrences[j], occurrences[j] + windowLength))
    /\ \A j \in 1..NumEsc :
          stdout[3 * j] = PrintStr(BytesRepr(UnicodeEscape(Body(stdout[3 * j - 1]))))
    /\ pc = "for" => Len(stdout) = 3 * pos
    /\ pc \in {"segment", "print_sep"} => Len(stdout) = 3 * pos - 3
    /\ pc = "print_seg" => Len(stdout) = 3 * pos - 2
    /\ pc = "print_esc" => Len(stdout) = 3 * pos - 1
    /\ pc = "done" => Len(stdout) = 3 * Len(occurrences)

Wit_C4 == pc = "done" /\ Len(occurrences) >= 2 /\ Len(stdout) = 3 * Len(occurrences)

\* C5: when the pattern occurs nowhere in the text, the occurrence list is
\* empty, nothing is ever written, and the run ends with exit status 0.
Thm_C5 ==
    /\ []((Scanned /\ NoMatch) =>
             (occurrences = <<>> /\ stdout = <<>> /\ exitStatus \in {-1, 0}))
    /\ (pc = "scan" /\ NoMatch) ~> (pc = "done" /\ exitStatus = 0 /\ stdout = <<>>)

Wit_C5 ==
    /\ pc = "done"
    /\ text # <<>>
    /\ NoMatch
    /\ stdout = <<>>
    /\ exitStatus = 0

\* C6: when the file is missing or not valid UTF-8, nothing is written, no
\* scan takes place, the open and the read are not tried again, and the run
\* ends in the error state with exit status 1.
Thm_C6 ==
    /\ [](BadInput => /\ stdout = <<>>
                      /\ occurrences = <<>>
                      /\ pc \notin {"scan", "for", "segment", "print_sep",
                                    "print_seg", "print_esc", "done"}
                      /\ exitStatus \in {-1, 1}
                      /\ pc = "error" =>
                            error = IF file.exists THEN "UnicodeDecodeError"
                                    ELSE "FileNotFoundError")
    /\ [][(pc \in {"read", "close"}) => pc' \notin {"idle", "open"}]_vars
    /\ [][(pc = "close") => pc' # "read"]_vars
    /\ BadInput ~> (pc = "error" /\ exitStatus = 1 /\ stdout = <<>>)

Wit_C6 ==
    /\ pc = "error"
    /\ file.exists
    /\ error = "UnicodeDecodeError"
    /\ exitStatus = 1
    /\ stdout = <<>>

\* the rendering C7 as stated ascribes to a window of letters, line feeds
\* and tabs: a line feed is backslash n, a tab is backslash t
TwoCharEscape(w) ==
    Concat([k \in 1..Len(w) |->
               IF w[k] = 10 THEN <<92, 110>>
               ELSE IF w[k] = 9 THEN <<92, 116>>
               ELSE <<w[k]>>])

\* C7 as stated: for a window of letters, line feeds and tabs holding a line
\* feed, the escaped line has no line break and holds the window with each
\* line feed as the two characters backslash n, each tab as backslash t.
Orig_C7 ==
    \A j \in 1..NumEsc :
        LET w == Body(stdout[3 * j - 1])
            e == Body(stdout[3 * j])
        IN (10 \in Range(w) /\ Range(w) \subseteq {97, 9, 10})
               => ~(10 \in Range(e)) /\ Contains(e, TwoCharEscape(w))

\* what print writes for one character of the window in the escaped line
PrintedChar(c) ==
    IF c = 92 THEN <<92, 92, 92, 92>>
    ELSE IF c = 9 THEN <<92, 92, 116>>
    ELSE IF c = 10 THEN <<92, 92, 110>>
    ELSE IF c = 13 THEN <<92, 92, 114>>
    ELSE IF c >= 32 /\ c < 127 THEN <<c>>
    ELSE IF c < 256 THEN <<92, 92, 120>> \o Hex(c, 2)
    ELSE IF c < 65536 THEN <<92, 92, 117>> \o Hex(c, 4)
    ELSE <<92, 92, 85>> \o Hex(c, 8)

\* C7, amended: the literal line reproduces each line feed of the window
\* verbatim; the escaped line is the bytes literal b'...' of the window, has
\* no line break, and shows a line feed as the three characters backslash
\* backslash n and a tab as backslash backslash t.
Thm_C7 ==
    \A j \in 1..NumEsc :
        LET i == occurrences[j]
            w == Body(stdout[3 * j - 1])
            e == Body(stdout[3 * j])
        IN /\ \A k \in 1..Min(windowLength, Len(text) - i) :
                  text[i + k] = 10 => (k <= Len(w) /\ w[k] = 10)
           /\ ~(10 \in Range(e))
           /\ (~(39 \in Range(w)) /\ ~(34 \in Range(w))) =>
                  e = <<98, 39>> \o Concat([k \in 1..Len(w) |-> PrintedChar(w[k])])
                          \o <<39>>

Wit_C7 ==
    \E j \in 1..NumEsc :
        /\ Body(stdout[3 * j - 1]) = <<97, 10>>
        /\ Body(stdout[3 * j]) = <<98, 39, 97, 92, 92, 110, 39>>

\* C8: no handle on the file is open while the scan or a print is pending or
\* after the run has ended, whether the read succeeded or failed; a handle
\* is open only between the open and the close of read_text.
Thm_C8 ==
    /\ (pc = "scan" \/ Scanned \/ pc = "error") => ~handleOpen
    /\ handleOpen => pc \in {"read", "close"}

Wit_C8 == pc = "print_seg" /\ ~handleOpen /\ text # <<>>

\* C9: the phase only ever advances along Idle, Reading, Scanning/Printing,
\* Done (or Reading, Error), no step leaves Done or Error, at most one
\* report per text offset is written, and every run reaches Done or Error.
Thm_C9 ==
    /\ [][Phase' = Phase \/ <<Phase, Phase'>> \in PhaseOrder]_vars
    /\ [](Len(stdout) <= 3 * Len(text))
    /\ <>Terminated

Wit_C9 == pc = "done" /\ text # <<>> /\ Len(stdout) = 3 * Len(text)

\* C10: nothing is written before the occurrence list is bound; the list
\* changes only in the scan step and the text only when read_text returns;
\* a print step changes nothing but stdout and the position in the script,
\* and no other step changes stdout.
Thm_C10 ==
    /\ [](stdout # <<>> => Scanned)
    /\ [][/\ occurrences' # occurrences => pc = "scan"
          /\ text' # text => pc = "close"
          /\ pc \in {"print_sep", "print_seg", "print_esc"} =>
                 UNCHANGED <<file, pattern, windowLength, handleOpen, buffer,
                             pending, text, occurrences, pos, idx, segment,
                             error, exitStatus>>
          /\ pc \notin {"print_sep", "print_seg", "print_esc"} => stdout' = stdout
         ]_vars

Wit_C10 ==
    /\ pc = "done"
    /\ Len(occurrences) >= 2
    /\ occurrences = Occurrences(text, pattern)
    /\ Len(stdout) = 3 * Len(occurrences)
    /\ text = UniversalNewlines(Utf8Decode(file.bytes).text)

====
